---- MODULE Spec2Model ----
(***************************************************************************)
(* A model of the chess rules engine of src/src/lib.rs: the Game value     *)
(* (state, chessboard, turn, ep_square, halfmove, fullmove), the move      *)
(* generator Piece::available_moves, the check detector Game::in_check,    *)
(* the move executor Game::make_move / make_move_internal, and the FEN     *)
(* decoder and encoder Game::load_fen / Game::get_fen.                     *)
(*                                                                         *)
(* Strings are TLA+ strings read one character at a time; squares are      *)
(* <<row, column>> pairs as in the source (row 0 is the black back rank).  *)
(***************************************************************************)
EXTENDS Integers, Sequences, FiniteSets, TLC

VARIABLES state, chessboard, turn, ep_square, halfmove, fullmove,
          op, ret, exit, hist, pre, fen, aborted, nloads, asked, listed

\* the fields of the Game value
game_vars == <<state, chessboard, turn, ep_square, halfmove, fullmove>>
\* op, ret, exit: the last call, the value it returned, the return site taken;
\* hist: the accepted moves since the position was built or loaded;
\* pre: the Game before the last accepted move; fen: the last string loaded;
\* aborted: a call has panicked; nloads: load_fen calls so far;
\* asked, listed: the square given to get_possible_moves when it was the last
\* call, and the list it returned
vars == <<state, chessboard, turn, ep_square, halfmove, fullmove,
          op, ret, exit, hist, pre, fen, aborted, nloads, asked, listed>>

\* ------------------------------------------------------------------ bounds

\* accepted make_move calls explored on the Game built by Game::new()
MaxMoves == 5
\* accepted make_move calls explored after a load_fen
MaxMovesLoaded == 2
\* load_fen calls explored in one run
MaxLoads == 1
\* get_possible_moves is called after at most this many accepted moves
MaxMovesQueried == 1

\* ------------------------------------------------------------------ characters

\* The characters move and position strings are made of, in code order.
Digits == "0123456789"
Upper == "ABCDEFGHIJKLMNOPQRSTUVWXYZ"
Lower == "abcdefghijklmnopqrstuvwxyz"

\* the i-th character of a string (1-based), Rust's s.chars().nth(i-1).unwrap()
Char(s, i) == SubSeq(s, i, i)

\* the characters of a string
CharsOf(s) == {Char(s, i) : i \in 1..Len(s)}

IndexOf(s, c) == CHOOSE i \in 1..Len(s) : Char(s, i) = c

\* the ASCII codes of these characters and of the separators
OrdTable ==
    [c \in CharsOf(Digits) \cup CharsOf(Upper) \cup CharsOf(Lower) \cup {" ", "+", "-", "/"} |->
        CASE c \in CharsOf(Digits) -> 47 + IndexOf(Digits, c)
          [] c \in CharsOf(Upper) -> 64 + IndexOf(Upper, c)
          [] c \in CharsOf(Lower) -> 96 + IndexOf(Lower, c)
          [] c = " " -> 32
          [] c = "+" -> 43
          [] c = "-" -> 45
          [] c = "/" -> 47]

\* `c as i8` / `c as usize` for an ASCII character
Ord(c) == OrdTable[c]

\* `n as u8 as char` for the code of a digit or a letter
Chr(n) ==
    CASE n \in 48..57 -> Char(Digits, n - 47)
      [] n \in 65..90 -> Char(Upper, n - 64)
      [] n \in 97..122 -> Char(Lower, n - 96)

is_digit(c) == Ord(c) \in 48..57
to_digit(c) == Ord(c) - 48
is_uppercase(c) == Ord(c) \in 65..90

\* ------------------------------------------------------------------ data

White == "White"
Black == "Black"
Other(color) == IF color = White THEN Black ELSE White

\* Option<Piece>::None, and Piece::new
None == [role |-> "None", color |-> "None", has_moved |-> FALSE]
Piece_new(role, color, has_moved) ==
    [role |-> role, color |-> color, has_moved |-> has_moved]

is_some(p) == p.role # "None"
is_none(p) == p.role = "None"

\* Option<Vec<i8>>::None for ep_square
NoSquare == <<>>

Rows == 0..7
Cols == 0..7
Squares == Rows \X Cols

\* board[pos[0]][pos[1]]
At(board, pos) == board[pos[1]][pos[2]]

back_row == <<"Rook", "Knight", "Bishop", "Queen", "King", "Bishop", "Knight", "Rook">>

\* Game::new()
Game_new ==
    [state |-> "InProgress",
     chessboard |->
        [r \in Rows |-> [c \in Cols |->
            CASE r = 0 -> Piece_new(back_row[c + 1], Black, FALSE)
              [] r = 1 -> Piece_new("Pawn", Black, FALSE)
              [] r = 6 -> Piece_new("Pawn", White, FALSE)
              [] r = 7 -> Piece_new(back_row[c + 1], White, FALSE)
              [] OTHER -> None]],
     turn |-> White,
     ep_square |-> NoSquare,
     halfmove |-> 0,
     fullmove |-> 1]

\* the Game value held in the variables
Self ==
    [state |-> state, chessboard |-> chessboard, turn |-> turn,
     ep_square |-> ep_square, halfmove |-> halfmove, fullmove |-> fullmove]

\* ------------------------------------------------------------------ move generator

move_okay(move_vec) ==
    move_vec[1] >= 0 /\ move_vec[1] <= 7 /\ move_vec[2] >= 0 /\ move_vec[2] <= 7

\* One direction of the rook/bishop/queen loops: offsets 1..7 are visited in
\* order; a square on the board is pushed, and the direction is switched off
\* after the first occupied square.
RECURSIVE ray(_, _, _, _)
ray(board, pos, dir, offset) ==
    LET sq == <<pos[1] + offset * dir[1], pos[2] + offset * dir[2]>>
    IN  IF offset > 7 \/ ~move_okay(sq) THEN {}
        ELSE IF is_some(At(board, sq)) THEN {sq}
        ELSE {sq} \cup ray(board, pos, dir, offset + 1)

rook_dirs == {<<-1, 0>>, <<0, 1>>, <<1, 0>>, <<0, -1>>}
bishop_dirs == {<<-1, 1>>, <<1, 1>>, <<1, -1>>, <<-1, -1>>}
knight_jumps == {<<-2, 1>>, <<-1, 2>>, <<1, 2>>, <<2, 1>>,
                 <<2, -1>>, <<1, -2>>, <<-1, -2>>, <<-2, -1>>}
\* variant: the queen given the rook's directions only
queen_dirs_orthogonal == rook_dirs

\* the queen's eight directions
queen_dirs == rook_dirs \cup bishop_dirs
king_steps == {<<-1, 0>>, <<-1, 1>>, <<0, 1>>, <<1, 1>>,
               <<1, 0>>, <<1, -1>>, <<0, -1>>, <<-1, -1>>}

pawn_moves(self, game, pos, only_attack_moves) ==
    LET board == game.chessboard
        white_black == IF self.color = White THEN -1 ELSE 1
        left == <<pos[1] + white_black, pos[2] - 1>>
        right == <<pos[1] + white_black, pos[2] + 1>>
        one == <<pos[1] + white_black, pos[2]>>
        two == <<pos[1] + 2 * white_black, pos[2]>>
        diag(d) == IF move_okay(d) /\ (is_some(At(board, d)) \/ game.ep_square = d)
                   THEN {d} ELSE {}
        ahead == IF ~only_attack_moves /\ move_okay(one) /\ is_none(At(board, one))
                 THEN {one} \cup
                      (IF ~self.has_moved /\ move_okay(two) /\ is_none(At(board, two))
                       THEN {two} ELSE {})
                 ELSE {}
    IN  diag(left) \cup diag(right) \cup ahead

\* the match on self.role, without the castling part of the King arm
role_moves(self, game, pos, only_attack_moves) ==
    LET board == game.chessboard
        rays(dirs) == UNION {ray(board, pos, d, 1) : d \in dirs}
        steps(ds) == {sq \in {<<pos[1] + d[1], pos[2] + d[2]>> : d \in ds} : move_okay(sq)}
    IN  CASE self.role = "Pawn" -> pawn_moves(self, game, pos, only_attack_moves)
          [] self.role = "Rook" -> rays(rook_dirs)
          [] self.role = "Knight" -> steps(knight_jumps)
          [] self.role = "Bishop" -> rays(bishop_dirs)
          [] self.role = "Queen" -> rays(queen_dirs)
          [] self.role = "King" -> steps(king_steps)
          [] OTHER -> {}

\* variant: nothing is removed, squares holding the mover's own pieces stay
retain_all(self, board, moves) == moves

\* moves.retain(...): drop the squares that hold a piece of the mover's colour
retain_not_own(self, board, moves) ==
    {x \in moves : is_none(At(board, x)) \/ At(board, x).color # self.color}

\* Rust's integer division (truncation toward zero) by a positive divisor
idiv(a, b) == IF a >= 0 THEN a \div b ELSE -((-a) \div b)
\* variant: the sign of the king's step taken as positive
signum_one(a) == 1

signum(a) == IF a > 0 THEN 1 ELSE IF a < 0 THEN -1 ELSE 0
abs(a) == IF a < 0 THEN -a ELSE a

\* format!("{}{}", (97+pos[1]) as u8 as char, (56-pos[0]) as u8 as char)
format_square(pos) == Chr(97 + pos[2]) \o Chr(56 - pos[1])

\* board[pos[0]][pos[1]] = piece
Put(board, pos, piece) == [board EXCEPT ![pos[1]][pos[2]] = piece]

\* the throwaway Game the castling code builds around a board
castling_game(board, color) ==
    [state |-> "InProgress", chessboard |-> board, turn |-> color,
     ep_square |-> NoSquare, halfmove |-> 0, fullmove |-> 1]

\* the result of a call: the Game afterwards, the value returned ("None" for
\* Option::None, "panic" for an unwinding panic) and the return site taken
Result(g, r, e) == [g |-> g, ret |-> r, exit |-> e]

RECURSIVE available_moves(_, _, _, _, _)
RECURSIVE make_move_internal(_, _, _, _)

\* ------------------------------------------------------------------ check detector

\* the first square, in row-major order, holding _turn's king; <<>> if none
find_king(board, _turn) ==
    LET ks == {sq \in Squares : At(board, sq).color = _turn /\ At(board, sq).role = "King"}
    IN  IF ks = {} THEN <<>>
        ELSE CHOOSE k \in ks : \A o \in ks : k[1] < o[1] \/ (k[1] = o[1] /\ k[2] <= o[2])

\* Game::in_check(board, _turn)
in_check(board, _turn) ==
    LET king_pos == find_king(board.chessboard, _turn)
    IN  \E sq \in Squares :
            LET piece == At(board.chessboard, sq)
            IN  /\ is_some(piece)
                /\ piece.color # _turn
                /\ king_pos \in available_moves(piece, board, sq, TRUE, TRUE)

\* ------------------------------------------------------------------ castling and the legality filter

\* the queenside loop: i = 1..3 must be empty squares, and the king standing
\* on i = 1 and i = 2 must not be in check; the move is pushed at i = 3
queenside_castling(self, game, pos, ignore_check) ==
    LET board == game.chessboard
        corner == board[pos[1]][pos[2] - 4]
        king_on(i) == castling_game(
            Put(Put(board, pos, None), <<pos[1], pos[2] - i>>,
                Piece_new("King", self.color, TRUE)), self.color)
    IN  IF /\ ~ignore_check
           /\ ~in_check(castling_game(board, self.color), self.color)
           /\ ~self.has_moved
           /\ is_some(corner)
           /\ corner.role = "Rook"
           /\ ~corner.has_moved
           /\ \A i \in 1..3 : is_none(board[pos[1]][pos[2] - i])
           /\ \A i \in 1..2 : ~in_check(king_on(i), self.color)
        THEN {<<pos[1], pos[2] - 2>>}
        ELSE {}

\* variant: the kingside loop tests the king on its destination only, not on
\* the square it crosses
kingside_castling_destination_only(self, game, pos, ignore_check) ==
    LET board == game.chessboard
        corner == board[pos[1]][pos[2] + 3]
        king_on(i) == castling_game(
            Put(Put(board, pos, None), <<pos[1], pos[2] + i>>,
                Piece_new("King", self.color, TRUE)), self.color)
    IN  IF /\ ~ignore_check
           /\ ~in_check(castling_game(board, self.color), self.color)
           /\ ~self.has_moved
           /\ is_some(corner)
           /\ corner.role = "Rook"
           /\ ~corner.has_moved
           /\ \A i \in 1..2 : is_none(board[pos[1]][pos[2] + i])
           /\ ~in_check(king_on(2), self.color)
        THEN {<<pos[1], pos[2] + 2>>}
        ELSE {}

\* the kingside loop: i = 1..2 must be empty squares on which the king is
\* not in check; the move is pushed at i = 2
kingside_castling(self, game, pos, ignore_check) ==
    LET board == game.chessboard
        corner == board[pos[1]][pos[2] + 3]
        king_on(i) == castling_game(
            Put(Put(board, pos, None), <<pos[1], pos[2] + i>>,
                Piece_new("King", self.color, TRUE)), self.color)
    IN  IF /\ ~ignore_check
           /\ ~in_check(castling_game(board, self.color), self.color)
           /\ ~self.has_moved
           /\ is_some(corner)
           /\ corner.role = "Rook"
           /\ ~corner.has_moved
           /\ \A i \in 1..2 : is_none(board[pos[1]][pos[2] + i])
           /\ \A i \in 1..2 : ~in_check(king_on(i), self.color)
        THEN {<<pos[1], pos[2] + 2>>}
        ELSE {}

\* the last loop of available_moves: a destination is removed when the move,
\* played on a clone with skip_move_check = true, leaves self.color in check
leaves_in_check(self, game, pos, move_vec) ==
    LET board_copy == make_move_internal(game, format_square(pos),
                                         format_square(move_vec), TRUE).g
    IN  in_check(board_copy, self.color)

\* Piece::available_moves(&self, game, pos, only_attack_moves, ignore_check)
available_moves(self, game, pos, only_attack_moves, ignore_check) ==
    LET pushed == role_moves(self, game, pos, only_attack_moves) \cup
                  (IF self.role = "King"
                   THEN queenside_castling(self, game, pos, ignore_check) \cup
                        kingside_castling(self, game, pos, ignore_check)
                   ELSE {})
        moves == retain_not_own(self, game.chessboard, pushed)
    IN  IF ignore_check THEN moves
        ELSE {move_vec \in moves : ~leaves_in_check(self, game, pos, move_vec)}

\* ------------------------------------------------------------------ move executor

\* variant: only the lower-case promotion letters are known
promotion_role_lower_case(c) ==
    CASE c = "q" -> "Queen"
      [] c = "r" -> "Rook"
      [] c = "n" -> "Knight"
      [] c = "b" -> "Bishop"
      [] OTHER -> "None"

promotion_role(c) ==
    CASE c \in {"q", "Q"} -> "Queen"
      [] c \in {"r", "R"} -> "Rook"
      [] c \in {"n", "N"} -> "Knight"
      [] c \in {"b", "B"} -> "Bishop"
      [] OTHER -> "None"

\* the writes of the promotion arm of make_move_internal
promote(self, piece, from_pos, to_pos, new_role) ==
    [self EXCEPT
        !.chessboard = Put(Put(@, to_pos, Piece_new(new_role, piece.color, TRUE)),
                           from_pos, None),
        !.ep_square = NoSquare,
        !.halfmove = 0]

\* variant: the promotion arm writes the board (with a queen) before it
\* validates the promotion letter
promotion_arm_writes_first(self, piece, from_pos, to_pos, _to) ==
    LET new_role == IF Len(_to) < 3 THEN "None" ELSE promotion_role(Char(_to, 3))
    IN  IF new_role = "None"
        THEN Result(promote(self, piece, from_pos, to_pos, "Queen"), "None",
                    "promotion_invalid")
        ELSE Result(promote(self, piece, from_pos, to_pos, new_role), "ok", "promoted")

\* the promotion arm with its two early returns: no third character, or
\* one that is no promotion letter
promotion_arm(self, piece, from_pos, to_pos, _to) ==
    IF Len(_to) < 3 THEN Result(self, "None", "promotion_missing")
    ELSE LET new_role == promotion_role(Char(_to, 3))
         IN  IF new_role = "None" THEN Result(self, "None", "promotion_invalid")
             ELSE Result(promote(self, piece, from_pos, to_pos, new_role), "ok", "promoted")

\* variant: the halfmove clock reset by pawn moves only, not by captures
next_halfmove_pawn_only(self, piece, to_pos) ==
    IF piece.role = "Pawn" THEN 0 ELSE self.halfmove + 1

\* the halfmove clock after a move that is not a promotion
next_halfmove(self, piece, to_pos) ==
    IF piece.role = "Pawn" \/ is_some(At(self.chessboard, to_pos))
    THEN 0 ELSE self.halfmove + 1

\* variant: the double step test without the test for a pawn
next_ep_square_any_piece(piece, from_pos, to_pos) ==
    IF abs(to_pos[1] - from_pos[1]) = 2
    THEN <<from_pos[1] + idiv(to_pos[1] - from_pos[1], 2), from_pos[2]>>
    ELSE NoSquare

\* the en passant square after a move that is not a promotion
next_ep_square(piece, from_pos, to_pos) ==
    IF piece.role = "Pawn" /\ abs(to_pos[1] - from_pos[1]) = 2
    THEN <<from_pos[1] + idiv(to_pos[1] - from_pos[1], 2), from_pos[2]>>
    ELSE NoSquare

\* variant: the pawn taken en passant looked for one row below the en
\* passant square, which is right for a White capture only
next_board_row_below(self, piece, from_pos, to_pos) ==
    LET moved == Put(Put(self.chessboard, to_pos,
                         Piece_new(piece.role, piece.color, TRUE)), from_pos, None)
        taken == IF /\ self.ep_square # NoSquare
                    /\ self.ep_square = to_pos
                    /\ piece.role = "Pawn"
                 THEN Put(moved, <<self.ep_square[1] + 1, self.ep_square[2]>>, None)
                 ELSE moved
    IN  IF piece.role = "King" /\ abs(to_pos[2] - from_pos[2]) = 2
        THEN Put(Put(taken,
                     <<to_pos[1], to_pos[2] - signum(to_pos[2] - from_pos[2])>>,
                     Piece_new("Rook", piece.color, TRUE)),
                 <<to_pos[1], idiv(7 * to_pos[2] - 14, 4)>>, None)
        ELSE taken

\* the board after a move that is not a promotion: the piece is moved, an
\* en passant capture removes the passed pawn, castling relocates the rook
next_board(self, piece, from_pos, to_pos) ==
    LET moved == Put(Put(self.chessboard, to_pos,
                         Piece_new(piece.role, piece.color, TRUE)), from_pos, None)
        taken == IF /\ self.ep_square # NoSquare
                    /\ self.ep_square = to_pos
                    /\ piece.role = "Pawn"
                 THEN Put(moved, <<idiv(self.ep_square[1] + 7, 3), self.ep_square[2]>>, None)
                 ELSE moved
    IN  IF piece.role = "King" /\ abs(to_pos[2] - from_pos[2]) = 2
        THEN Put(Put(taken,
                     <<to_pos[1], to_pos[2] - signum(to_pos[2] - from_pos[2])>>,
                     Piece_new("Rook", piece.color, TRUE)),
                 <<to_pos[1], idiv(7 * to_pos[2] - 14, 4)>>, None)
        ELSE taken

\* the else arm of make_move_internal
move_piece(self, piece, from_pos, to_pos) ==
    [self EXCEPT
        !.halfmove = next_halfmove(self, piece, to_pos),
        !.chessboard = next_board(self, piece, from_pos, to_pos),
        !.ep_square = next_ep_square(piece, from_pos, to_pos)]

\* variant: the fullmove clock advanced after White's move
next_fullmove_white(self) == IF self.turn = White THEN self.fullmove + 1 ELSE self.fullmove

\* the fullmove clock after a move of self.turn
next_fullmove(self) == IF self.turn = Black THEN self.fullmove + 1 ELSE self.fullmove

\* variant: the turn is passed to the opponent in the terminal case too
update_state_always_flips(self) ==
    LET opponent == Other(self.turn)
        checked == [self EXCEPT !.state =
                        IF in_check(self, opponent) THEN "Check" ELSE "InProgress"]
        can_move == \E sq \in Squares :
                        LET piece == At(checked.chessboard, sq)
                        IN  /\ is_some(piece)
                            /\ piece.color # checked.turn
                            /\ available_moves(piece, checked, sq, FALSE, FALSE) # {}
    IN  IF can_move
        THEN Result([checked EXCEPT !.fullmove = next_fullmove(checked),
                                    !.turn = opponent],
                    checked.state, "moved")
        ELSE LET final == IF in_check(checked, opponent) THEN "Checkmate" ELSE "Stalemate"
             IN  Result([checked EXCEPT !.state = final,
                                        !.fullmove = next_fullmove(checked),
                                        !.turn = opponent],
                        final, "terminal")

\* the tail of make_move_internal: the state is set from in_check of the
\* opponent, then the board is scanned for an opposing piece with a move
update_state(self) ==
    LET opponent == Other(self.turn)
        checked == [self EXCEPT !.state =
                        IF in_check(self, opponent) THEN "Check" ELSE "InProgress"]
        can_move == \E sq \in Squares :
                        LET piece == At(checked.chessboard, sq)
                        IN  /\ is_some(piece)
                            /\ piece.color # checked.turn
                            /\ available_moves(piece, checked, sq, FALSE, FALSE) # {}
    IN  IF can_move
        THEN Result([checked EXCEPT !.fullmove = next_fullmove(checked),
                                    !.turn = opponent],
                    checked.state, "moved")
        ELSE LET final == IF in_check(checked, opponent) THEN "Checkmate" ELSE "Stalemate"
             IN  Result([checked EXCEPT !.state = final,
                                        !.fullmove = next_fullmove(checked)],
                        final, "terminal")

\* variant: the two states joined by "and", which never holds
game_over_never(self) == self.state = "Checkmate" /\ self.state = "Stalemate"

\* the first test of make_move_internal: the game is already over
game_over(self) == self.state = "Checkmate" \/ self.state = "Stalemate"

\* a square string names a board square: the index expressions on _from do
\* not underflow and stay inside the 8x8 vectors
on_board(s) ==
    /\ 56 - Ord(Char(s, 2)) \in Rows
    /\ Ord(Char(s, 1)) - 97 \in Cols

parse_square(s) == <<56 - Ord(Char(s, 2)), Ord(Char(s, 1)) - 97>>

\* Game::make_move_internal(&mut self, _from, _to, skip_move_check)
make_move_internal(self, _from, _to, skip_move_check) ==
    IF game_over(self)
    THEN Result(self, "None", "game_over")
    ELSE IF Len(_from) < 2 \/ ~on_board(_from)
    THEN Result(self, "panic", "from_square")
    ELSE IF is_none(At(self.chessboard, parse_square(_from)))
    THEN Result(self, "None", "no_piece")
    ELSE IF Len(_to) < 2
    THEN Result(self, "panic", "to_square")
    ELSE
    LET from_pos == parse_square(_from)
        to_pos == parse_square(_to)
        piece == At(self.chessboard, from_pos)
    IN  IF ~skip_move_check /\ piece.color # self.turn
        THEN Result(self, "None", "wrong_color")
        ELSE IF /\ ~skip_move_check
                /\ to_pos \notin available_moves(piece, self, from_pos, FALSE, FALSE)
        THEN Result(self, "None", "illegal")
        ELSE
        LET promotion == piece.role = "Pawn" /\ (to_pos[1] = 0 \/ to_pos[1] = 7)
            arm == IF promotion
                   THEN promotion_arm(self, piece, from_pos, to_pos, _to)
                   ELSE Result(move_piece(self, piece, from_pos, to_pos), "ok", "moved")
        IN  IF arm.ret = "None" THEN arm
            ELSE IF skip_move_check THEN Result(arm.g, "None", "skip")
            ELSE update_state(arm.g)

\* Game::make_move(&mut self, _from, _to)
make_move(self, _from, _to) == make_move_internal(self, _from, _to, FALSE)

\* ------------------------------------------------------------------ FEN decoder

\* Rust's s.split(sep): the pieces between the separators, empty ones included
RECURSIVE split(_, _)
split(s, sep) ==
    IF sep \notin CharsOf(s) THEN <<s>>
    ELSE LET i == CHOOSE j \in 1..Len(s) :
                    Char(s, j) = sep /\ \A k \in 1..(j - 1) : Char(s, k) # sep
         IN  <<SubSeq(s, 1, i - 1)>> \o split(SubSeq(s, i + 1, Len(s)), sep)

\* the outcome of a stage of load_fen: the board so far and "ok", "None"
\* (return None) or "panic"
Stage(board, status) == [board |-> board, status |-> status]

\* the digit arm: n squares from column_index are set to None, one write at a
\* time; a write outside the 8x8 vectors panics
RECURSIVE clear_run(_, _, _, _)
clear_run(board, row_index, column_index, n) ==
    IF n = 0 THEN Stage(board, "ok")
    ELSE IF row_index > 7 \/ column_index > 7 THEN Stage(board, "panic")
    ELSE clear_run(Put(board, <<row_index, column_index>>, None),
                   row_index, column_index + 1, n - 1)

fen_role(c) ==
    CASE c \in {"p", "P"} -> "Pawn"
      [] c \in {"r", "R"} -> "Rook"
      [] c \in {"n", "N"} -> "Knight"
      [] c \in {"b", "B"} -> "Bishop"
      [] c \in {"q", "Q"} -> "Queen"
      [] c \in {"k", "K"} -> "King"
      [] OTHER -> "None"

\* the piece written for a letter: has_moved is true, except for a pawn on
\* the home rank of its colour
fen_piece(c, row_index) ==
    LET color == IF is_uppercase(c) THEN White ELSE Black
        role == fen_role(c)
        home == role = "Pawn" /\ ((color = White /\ row_index = 6) \/
                                  (color = Black /\ row_index = 1))
    IN  Piece_new(role, color, ~home)

\* the characters of one row of the placement field, from the i-th on
RECURSIVE place_row(_, _, _, _, _)
place_row(board, row, row_index, i, column_index) ==
    IF i > Len(row) THEN Stage(board, "ok")
    ELSE LET c == Char(row, i)
         IN  IF is_digit(c)
             THEN LET run == clear_run(board, row_index, column_index, to_digit(c))
                  IN  IF run.status # "ok" THEN run
                      ELSE place_row(run.board, row, row_index, i + 1,
                                     column_index + to_digit(c))
             ELSE IF fen_role(c) = "None" THEN Stage(board, "None")
             ELSE IF row_index > 7 \/ column_index > 7 THEN Stage(board, "panic")
             ELSE place_row(Put(board, <<row_index, column_index>>, fen_piece(c, row_index)),
                            row, row_index, i + 1, column_index + 1)

\* the rows of the placement field, from the k-th on
RECURSIVE place_rows(_, _, _)
place_rows(board, rows, k) ==
    IF k > Len(rows) THEN Stage(board, "ok")
    ELSE LET r == place_row(board, rows[k], k - 1, 1, 0)
         IN  IF r.status # "ok" THEN r ELSE place_rows(r.board, rows, k + 1)

\* board[sq].as_mut().unwrap().has_moved = false
clear_has_moved(st, sq) ==
    IF st.status # "ok" THEN st
    ELSE IF is_none(At(st.board, sq)) THEN Stage(st.board, "panic")
    ELSE Stage([st.board EXCEPT ![sq[1]][sq[2]].has_moved = FALSE], "ok")

\* the characters of the castling field, from the i-th on
RECURSIVE castling_chars(_, _, _)
castling_chars(board, field, i) ==
    IF i > Len(field) THEN Stage(board, "ok")
    ELSE LET c == Char(field, i)
             st == CASE c = "K" -> clear_has_moved(clear_has_moved(Stage(board, "ok"), <<7, 4>>), <<7, 7>>)
                     [] c = "Q" -> clear_has_moved(clear_has_moved(Stage(board, "ok"), <<7, 4>>), <<7, 0>>)
                     [] c = "k" -> clear_has_moved(clear_has_moved(Stage(board, "ok"), <<0, 4>>), <<0, 7>>)
                     [] c = "q" -> clear_has_moved(clear_has_moved(Stage(board, "ok"), <<0, 4>>), <<0, 0>>)
                     [] c = "-" -> Stage(board, "ok")
                     [] OTHER -> Stage(board, "None")
         IN  IF st.status # "ok" THEN st ELSE castling_chars(st.board, field, i + 1)

\* str::parse::<u64>() succeeds: an optional "+", then one digit or more
parse_ok(s) ==
    LET body == IF Len(s) > 0 /\ Char(s, 1) = "+" THEN SubSeq(s, 2, Len(s)) ELSE s
    IN  Len(body) > 0 /\ \A i \in 1..Len(body) : is_digit(Char(body, i))

RECURSIVE digits_value(_, _)
digits_value(s, n) ==
    IF n = 0 THEN 0 ELSE 10 * digits_value(s, n - 1) + to_digit(Char(s, n))

parse_u64(s) ==
    LET body == IF Char(s, 1) = "+" THEN SubSeq(s, 2, Len(s)) ELSE s
    IN  digits_value(body, Len(body))

\* Game::load_fen(&mut self, fen_string); it returns None on every path
load_fen(self, fen_string) ==
    LET chapters == split(fen_string, " ")
        chapter(i) == IF i <= Len(chapters) THEN chapters[i] ELSE ""
        placed == place_rows(self.chessboard, split(chapter(1), "/"), 1)
        g1 == [self EXCEPT !.chessboard = placed.board]
        g2 == [g1 EXCEPT !.turn = IF chapter(2) = "w" THEN White ELSE Black]
        flagged == castling_chars(g2.chessboard, chapter(3), 1)
        g3 == [g2 EXCEPT !.chessboard = flagged.board]
        en_passant == chapter(4)
        g4 == [g3 EXCEPT !.ep_square =
                  IF en_passant # "-"
                  THEN <<56 - Ord(Char(en_passant, 2)), Ord(Char(en_passant, 1)) - 97>>
                  ELSE NoSquare]
        g5 == [g4 EXCEPT !.halfmove = parse_u64(chapter(5))]
        g6 == [g5 EXCEPT !.fullmove = parse_u64(chapter(6))]
    IN  IF Len(chapters) > 6 THEN Result(self, "None", "too_many_fields")
        ELSE IF placed.status # "ok" THEN Result(g1, placed.status, "placement")
        ELSE IF chapter(2) \notin {"w", "b"} THEN Result(g1, "None", "active_color")
        ELSE IF flagged.status # "ok" THEN Result(g3, flagged.status, "castling")
        ELSE IF en_passant # "-" /\ Len(en_passant) < 2 THEN Result(g3, "panic", "en_passant")
        ELSE IF ~parse_ok(chapter(5)) THEN Result(g4, "panic", "halfmove")
        ELSE IF ~parse_ok(chapter(6)) THEN Result(g5, "panic", "fullmove")
        ELSE Result(g6, "None", "loaded")

\* ------------------------------------------------------------------ FEN encoder

\* u64::to_string
RECURSIVE to_string(_)
to_string(n) ==
    IF n < 10 THEN Chr(48 + n) ELSE to_string(n \div 10) \o Chr(48 + (n % 10))

fen_letter(piece) ==
    LET i == CASE piece.role = "Pawn" -> 16
               [] piece.role = "Rook" -> 18
               [] piece.role = "Knight" -> 14
               [] piece.role = "Bishop" -> 2
               [] piece.role = "Queen" -> 17
               [] piece.role = "King" -> 11
    IN  IF piece.color = White THEN Char(Upper, i) ELSE Char(Lower, i)

\* variant: the count of empty squares is written before a piece but not
\* reset to 0
RECURSIVE row_string_no_reset(_, _, _)
row_string_no_reset(row, c, empty_squares) ==
    LET flush == IF empty_squares > 0 THEN to_string(empty_squares) ELSE ""
    IN  IF c > 7 THEN flush
        ELSE IF is_some(row[c])
        THEN flush \o fen_letter(row[c]) \o row_string_no_reset(row, c + 1, empty_squares)
        ELSE row_string_no_reset(row, c + 1, empty_squares + 1)

\* one row of the placement field, from column c on, after empty_squares
\* empty squares
RECURSIVE row_string(_, _, _)
row_string(row, c, empty_squares) ==
    LET flush == IF empty_squares > 0 THEN to_string(empty_squares) ELSE ""
    IN  IF c > 7 THEN flush
        ELSE IF is_some(row[c])
        THEN flush \o fen_letter(row[c]) \o row_string(row, c + 1, 0)
        ELSE row_string(row, c + 1, empty_squares + 1)

\* every row followed by "/", and the last "/" popped
RECURSIVE placement_string(_, _)
placement_string(board, r) ==
    row_string(board[r], 0, 0) \o
    (IF r = 7 THEN "" ELSE "/" \o placement_string(board, r + 1))

unmoved(board, sq, role) ==
    is_some(At(board, sq)) /\ At(board, sq).role = role /\ ~At(board, sq).has_moved

castling_string(board) ==
    LET w == IF unmoved(board, <<7, 4>>, "King")
             THEN (IF unmoved(board, <<7, 7>>, "Rook") THEN "K" ELSE "") \o
                  (IF unmoved(board, <<7, 0>>, "Rook") THEN "Q" ELSE "")
             ELSE ""
        b == IF unmoved(board, <<0, 4>>, "King")
             THEN (IF unmoved(board, <<0, 7>>, "Rook") THEN "k" ELSE "") \o
                  (IF unmoved(board, <<0, 0>>, "Rook") THEN "q" ELSE "")
             ELSE ""
    IN  IF Len(w \o b) = 0 THEN "-" ELSE w \o b

\* Game::get_fen(&self)
get_fen(self) ==
    placement_string(self.chessboard, 0) \o " " \o
    (IF self.turn = White THEN "w" ELSE "b") \o " " \o
    castling_string(self.chessboard) \o " " \o
    (IF self.ep_square # NoSquare THEN format_square(self.ep_square) ELSE "-") \o " " \o
    to_string(self.halfmove) \o " " \o
    to_string(self.fullmove)

\* Game::get_game_state, Game::get_turn, Game::get_halfmove
get_game_state(self) == self.state
get_turn(self) == IF self.turn = White THEN "White" ELSE "Black"
get_halfmove(self) == self.halfmove

\* ------------------------------------------------------------------ the list of legal destinations

\* dir_vectors of the Rook, Bishop and Queen arms, and the squares tested by
\* the Knight and King arms, in the order of the source
rook_dir_vectors == <<<<-1, 0>>, <<0, 1>>, <<1, 0>>, <<0, -1>>>>
bishop_dir_vectors == <<<<-1, 1>>, <<1, 1>>, <<1, -1>>, <<-1, -1>>>>
queen_dir_vectors == <<<<-1, 0>>, <<-1, 1>>, <<0, 1>>, <<1, 1>>,
                       <<1, 0>>, <<1, -1>>, <<0, -1>>, <<-1, -1>>>>
knight_order == <<<<-2, 1>>, <<-1, 2>>, <<1, 2>>, <<2, 1>>,
                  <<2, -1>>, <<1, -2>>, <<-1, -2>>, <<-2, -1>>>>
king_order == <<<<-1, 0>>, <<-1, 1>>, <<0, 1>>, <<1, 1>>,
                <<1, 0>>, <<1, -1>>, <<0, -1>>, <<-1, -1>>>>

\* the pushes of the two nested loops of a sliding piece: offsets 1..7
\* outside, directions inside; a direction is off once it met a piece
slide_pushes(board, pos, dir_vectors) ==
    LET n == Len(dir_vectors)
        target(offset, d) == <<pos[1] + offset * d[1], pos[2] + offset * d[2]>>
        dir_bool(offset, d) ==
            \A k \in 1..(offset - 1) :
                move_okay(target(k, d)) => is_none(At(board, target(k, d)))
        upto[i \in 0..(7 * n)] ==
            IF i = 0 THEN <<>>
            ELSE LET offset == ((i - 1) \div n) + 1
                     d == dir_vectors[((i - 1) % n) + 1]
                 IN  upto[i - 1] \o
                     (IF dir_bool(offset, d) /\ move_okay(target(offset, d))
                      THEN <<target(offset, d)>> ELSE <<>>)
    IN  upto[7 * n]

\* the pushes of the Knight and King arms: each square on the board, in order
step_pushes(pos, order) ==
    LET upto[i \in 0..Len(order)] ==
            IF i = 0 THEN <<>>
            ELSE LET sq == <<pos[1] + order[i][1], pos[2] + order[i][2]>>
                 IN  upto[i - 1] \o (IF move_okay(sq) THEN <<sq>> ELSE <<>>)
    IN  upto[Len(order)]

\* the squares of the Pawn arm in the order they are tested: diagonally
\* left, diagonally right, one ahead, two ahead
pawn_order(self, pos) ==
    LET white_black == IF self.color = White THEN -1 ELSE 1
    IN  step_pushes(pos, <<<<white_black, -1>>, <<white_black, 1>>,
                           <<white_black, 0>>, <<2 * white_black, 0>>>>)

\* the order in which the match on self.role reaches the squares it may
\* push: no square is reached twice, so the Vec `moves` holds each of its
\* squares once, in this order (the King arm ends with the queenside and
\* the kingside castling destination)
push_order(self, game, pos) ==
    CASE self.role = "Pawn" -> pawn_order(self, pos)
      [] self.role = "Rook" -> slide_pushes(game.chessboard, pos, rook_dir_vectors)
      [] self.role = "Knight" -> step_pushes(pos, knight_order)
      [] self.role = "Bishop" -> slide_pushes(game.chessboard, pos, bishop_dir_vectors)
      [] self.role = "Queen" -> slide_pushes(game.chessboard, pos, queen_dir_vectors)
      [] self.role = "King" ->
            step_pushes(pos, king_order \o <<<<0, -2>>, <<0, 2>>>>)
      [] OTHER -> <<>>

\* the Vec returned by available_moves(game, pos, false, false): the squares
\* pushed and neither removed by moves.retain nor by the legality loop, in
\* the order of the pushes
moves_vec(self, game, pos) ==
    LET returned == available_moves(self, game, pos, FALSE, FALSE)
        kept(move_vec) == move_vec \in returned
    IN  SelectSeq(push_order(self, game, pos), kept)

\* the value of a call of get_possible_moves: "Some" with the list, "None",
\* or "panic"
Listed(r, m) == [ret |-> r, moves |-> m]

\* the loop that turns the squares into strings:
\* format!("{}{}", (97+move_vec[1]) as u8 as char, (56-move_vec[0] as u8) as char)
moves_algebraic(vec) ==
    [i \in 1..Len(vec) |-> Chr(97 + vec[i][2]) \o Chr(56 - vec[i][1])]

\* Game::get_possible_moves(&self, _position)
get_possible_moves(self, _position) ==
    IF game_over(self) THEN Listed("None", <<>>)
    ELSE IF Len(_position) < 2 \/ ~on_board(_position) THEN Listed("panic", <<>>)
    ELSE IF is_none(At(self.chessboard, parse_square(_position))) THEN Listed("None", <<>>)
    ELSE Listed("Some",
                moves_algebraic(moves_vec(At(self.chessboard, parse_square(_position)),
                                          self, parse_square(_position))))

\* ------------------------------------------------------------------ inputs

StartFen == "rnbqkbnr/pppppppp/8/8/8/8/PPPPPPPP/RNBQKBNR w KQkq - 0 1"

\* position descriptions with six well-formed fields
WellFormedFens ==
    {StartFen,
     "8/KP5r/8/8/8/8/8/7k w - - 0 1",
     "7K/1P6/6k1/8/8/8/r7/8 b - - 0 1",
     "k7/8/8/8/8/8/1Q6/7K w - - 3 9",
     "r3k2r/8/8/8/8/8/8/R3K2R w KQkq - 5 7",
     "4k3/3p4/8/4P3/8/8/8/4K3 b - - 0 1",
     "4kr2/8/8/8/8/8/8/R3K2R w KQ - 0 1",
     "4k3/8/8/8/3p4/8/4P3/4K3 w - - 0 1"}

\* malformed ones: too few fields, too many, an unknown piece letter, an
\* unknown colour, an unknown castling letter, a castling letter without its
\* king, an unparsable halfmove number, an unparsable fullmove number
MalformedFens ==
    {"4k3/8/8/8/8/8/8/4K3",
     "4k3/8/8/8/8/8/8/4K3 w - - 0 1 x",
     "4k3/8/8/8/8/8/8/3XK3 w - - 0 1",
     "4k3/8/8/8/8/8/8/4K3 x - - 0 1",
     "4k3/8/8/8/8/8/8/4K3 w X - 0 1",
     "4k3/8/8/8/8/8/8/R2K4 w Q - 0 1",
     "4k3/8/8/8/8/8/8/4K3 w - - x 1",
     "4k3/8/8/8/8/8/8/4K3 w - - 0 x"}

FenInputs == WellFormedFens \cup MalformedFens

\* the (from, to) arguments tried for make_move: moves of the positions
\* above, moves that are refused, and strings that name no square
MoveInputs ==
    {<<"f2", "f3">>, <<"e7", "e5">>, <<"g2", "g4">>, <<"d8", "h4">>,
     <<"e2", "e4">>, <<"b1", "a3">>, <<"e2", "e5">>, <<"e3", "e4">>,
     <<"b7", "b8q">>, <<"b7", "b8">>, <<"b7", "b8x">>, <<"h7", "a7">>,
     <<"a2", "a8">>, <<"b7", "a8N">>,
     <<"b2", "b6">>, <<"h1", "g1">>,
     <<"e1", "g1">>, <<"e1", "c1">>, <<"e8", "g8">>, <<"e8", "c8">>, <<"a1", "a8">>,
     <<"d7", "d5">>, <<"e5", "d6">>, <<"e8", "e7">>,
     <<"a7", "a6">>, <<"e4", "e5">>, <<"d4", "e3">>,
     <<"", "e4">>, <<"i9", "e4">>, <<"e2", "e">>}

\* the squares asked for with get_possible_moves: pieces of the positions
\* above, an empty square, and a string that names no square
PositionInputs == {"b1", "g8", "e1", "e4", ""}

\* ------------------------------------------------------------------ the program

Init ==
    /\ state = Game_new.state
    /\ chessboard = Game_new.chessboard
    /\ turn = Game_new.turn
    /\ ep_square = Game_new.ep_square
    /\ halfmove = Game_new.halfmove
    /\ fullmove = Game_new.fullmove
    /\ op = "new"
    /\ ret = "None"
    /\ exit = "new"
    /\ hist = <<>>
    /\ pre = Game_new
    /\ fen = ""
    /\ aborted = FALSE
    /\ nloads = 0
    /\ asked = ""
    /\ listed = <<>>

\* the Game fields take the value g
Store(g) ==
    /\ state' = g.state
    /\ chessboard' = g.chessboard
    /\ turn' = g.turn
    /\ ep_square' = g.ep_square
    /\ halfmove' = g.halfmove
    /\ fullmove' = g.fullmove

\* a call game.make_move(_from, _to)
MakeMove(_from, _to) ==
    /\ ~aborted
    /\ Len(hist) < (IF nloads = 0 THEN MaxMoves ELSE MaxMovesLoaded)
    /\ \E r \in {make_move(Self, _from, _to)} :
           /\ Store(r.g)
           /\ op' = "make_move"
           /\ ret' = r.ret
           /\ exit' = r.exit
           /\ aborted' = (r.ret = "panic")
           /\ IF r.ret \in {"None", "panic"}
              THEN UNCHANGED <<hist, pre>>
              ELSE /\ hist' = Append(hist, <<_from, _to>>)
                   /\ pre' = Self
    /\ UNCHANGED <<fen, nloads>>
    /\ asked' = ""
    /\ listed' = <<>>

\* a call game.load_fen(fen_string); to bound the search, only StartFen is
\* loaded into a Game that moves were played on
LoadFen(fen_string) ==
    /\ ~aborted
    /\ nloads < MaxLoads
    /\ hist = <<>> \/ fen_string = StartFen
    /\ \E r \in {load_fen(Self, fen_string)} :
           /\ Store(r.g)
           /\ op' = "load_fen"
           /\ ret' = r.ret
           /\ exit' = r.exit
           /\ aborted' = (r.ret = "panic")
    /\ hist' = <<>>
    /\ pre' = Game_new
    /\ fen' = fen_string
    /\ nloads' = nloads + 1
    /\ asked' = ""
    /\ listed' = <<>>

\* a call game.get_possible_moves(_position)
GetPossibleMoves(_position) ==
    /\ ~aborted
    /\ Len(hist) <= MaxMovesQueried
    /\ \E r \in {get_possible_moves(Self, _position)} :
           /\ op' = "get_possible_moves"
           /\ ret' = r.ret
           /\ exit' = r.ret
           /\ aborted' = (r.ret = "panic")
           /\ listed' = r.moves
    /\ asked' = _position
    /\ UNCHANGED <<game_vars, hist, pre, fen, nloads>>

Next ==
    \/ \E mv \in MoveInputs : MakeMove(mv[1], mv[2])
    \/ \E f \in FenInputs : LoadFen(f)
    \/ \E p \in PositionInputs : GetPossibleMoves(p)

Spec == Init /\ [][Next]_vars

\* ------------------------------------------------------------------ properties

\* the last call was a make_move that was accepted
Accepted == op = "make_move" /\ ret \notin {"None", "panic"}

\* the squares and the piece of the last accepted move, and the mover
LastFrom == parse_square(hist[Len(hist)][1])
LastTo == parse_square(hist[Len(hist)][2])
Moved == At(pre.chessboard, LastFrom)
Mover == pre.turn

\* C1: never self-check. After an accepted move (its destination was in the
\* legal set, and a promotion letter was given where needed) the mover's own
\* king is not attacked.
C1_NeverSelfCheck == Accepted => ~in_check(Self, Mover)

\* C2: terminal states are absorbing under make_move. In Checkmate or
\* Stalemate every make_move call, whatever its arguments, returns None and
\* leaves every field of the Game as it was.
C2_TerminalAbsorbing ==
    [][(state \in {"Checkmate", "Stalemate"} /\ op' = "make_move")
         => (ret' = "None" /\ UNCHANGED game_vars)]_vars

\* a make_move call refused in Stalemate
C2_Witness ==
    op = "make_move" /\ state = "Stalemate" /\ ret = "None" /\ exit = "game_over"

\* C3: a rejected move mutates nothing. Whenever make_move returns None the
\* board with its has_moved flags, the turn, the en passant square, both
\* clocks and the state are what they were before the call.
C3_RejectedMutatesNothing ==
    [][(op' = "make_move" /\ ret' = "None") => UNCHANGED game_vars]_vars

\* a legal pawn move to the last rank refused for its promotion letter
C3_Witness ==
    op = "make_move" /\ ret = "None" /\ exit = "promotion_invalid"

\* the moves the rules of chess give a piece before the king's safety is
\* looked at, and whether one of them leaves the king of `color` unattacked;
\* a pawn reaching the last rank is given a promotion letter
Candidates(g, sq) ==
    LET piece == At(g.chessboard, sq)
    IN  retain_not_own(piece, g.chessboard,
            role_moves(piece, g, sq, FALSE) \cup
            (IF piece.role = "King"
             THEN queenside_castling(piece, g, sq, FALSE) \cup
                  kingside_castling(piece, g, sq, FALSE)
             ELSE {}))

Played(g, sq, d) ==
    LET piece == At(g.chessboard, sq)
        letter == IF piece.role = "Pawn" /\ d[1] \in {0, 7} THEN "q" ELSE ""
    IN  make_move_internal([g EXCEPT !.state = "InProgress"], format_square(sq),
                           format_square(d) \o letter, TRUE).g

HasEscape(g, color) ==
    \E sq \in Squares :
        /\ At(g.chessboard, sq).color = color
        /\ \E d \in Candidates(g, sq) : ~in_check(Played(g, sq, d), color)

RulesStatus(g, color) ==
    IF in_check(g, color)
    THEN (IF HasEscape(g, color) THEN "Check" ELSE "Checkmate")
    ELSE (IF HasEscape(g, color) THEN "InProgress" ELSE "Stalemate")

\* C4: the status returned and stored by an accepted move is the one the
\* rules of chess give the opponent: Checkmate, Stalemate, Check or
\* InProgress by whether the opponent's king is attacked and whether the
\* opponent has a move that leaves it unattacked.
C4_StatusMatchesRules ==
    Accepted => (ret = state /\ state = RulesStatus(Self, Other(Mover)))

FoolsMate == <<<<"f2", "f3">>, <<"e7", "e5">>, <<"g2", "g4">>, <<"d8", "h4">>>>

\* C5: fool's mate. From Game::new() the calls f2f3, e7e5, g2g4, d8h4 are
\* each accepted, the first three return InProgress and the fourth
\* Checkmate; the state is then Checkmate and every further call is refused.
C5_FoolsMate ==
    nloads = 0 =>
        /\ \A k \in 0..3 :
              hist = SubSeq(FoolsMate, 1, k) =>
                  make_move(Self, FoolsMate[k + 1][1], FoolsMate[k + 1][2]).ret =
                      (IF k < 3 THEN "InProgress" ELSE "Checkmate")
        /\ hist = FoolsMate =>
              /\ get_game_state(Self) = "Checkmate"
              /\ op = "make_move" /\ ret \in {"Checkmate", "None"}
              /\ \A mv \in MoveInputs : make_move(Self, mv[1], mv[2]).ret = "None"

\* a call made after the mate and refused
C5_Witness ==
    nloads = 0 /\ hist = FoolsMate /\ op = "make_move" /\ ret = "None"

\* C6: after load_fen of the start description, on any Game, the board with
\* its has_moved flags, the turn, the en passant square and the clocks equal
\* those of Game::new(), get_fen gives the same string, and the state read
\* back is InProgress.
C6_LoadStartRebuildsNew ==
    (op = "load_fen" /\ fen = StartFen) =>
        /\ chessboard = Game_new.chessboard
        /\ turn = Game_new.turn
        /\ ep_square = Game_new.ep_square
        /\ halfmove = Game_new.halfmove
        /\ fullmove = Game_new.fullmove
        /\ get_fen(Self) = get_fen(Game_new)
        /\ get_game_state(Self) = "InProgress"

\* C7: load_fen of a malformed description does not panic and leaves the
\* board, the turn, the en passant square and the clocks as they were.
C7_MalformedFailsCleanly ==
    [][(op' = "load_fen" /\ fen' \in MalformedFens)
         => (ret' # "panic" /\
             UNCHANGED <<chessboard, turn, ep_square, halfmove, fullmove>>)]_vars

\* C8: after an accepted move the halfmove clock is 0 if the piece moved is
\* a pawn or the destination was occupied, and the old value plus 1
\* otherwise; after b1a3 from the start it is 1.
C8_HalfmoveRule ==
    /\ Accepted =>
          get_halfmove(Self) =
              (IF Moved.role = "Pawn" \/ is_some(At(pre.chessboard, LastTo))
               THEN 0 ELSE pre.halfmove + 1)
    /\ (nloads = 0 /\ hist = <<<<"b1", "a3">>>>) => get_halfmove(Self) = 1

\* a capture by a piece that is no pawn resets a clock that was running
C8_Witness ==
    /\ Accepted
    /\ Moved.role = "Rook"
    /\ is_some(At(pre.chessboard, LastTo))
    /\ pre.halfmove > 0
    /\ halfmove = 0

\* C9: the fullmove clock goes up by exactly 1 on each accepted move of
\* Black, whatever the resulting state, and is left alone by an accepted
\* move of White and by a refused call.
C9_FullmoveRule ==
    [][op' = "make_move" =>
          fullmove' = fullmove +
              (IF ret' \notin {"None", "panic"} /\ turn = Black THEN 1 ELSE 0)]_vars

\* Black's mating move has advanced the clock
C9_Witness ==
    Accepted /\ Mover = Black /\ state = "Checkmate" /\ fullmove = pre.fullmove + 1

\* C10: after an accepted move the en passant square is the square skipped
\* by a pawn that advanced two rows, and absent after any other move.
C10_EnPassantLifecycle ==
    Accepted =>
        ep_square =
            (IF Moved.role = "Pawn" /\ abs(LastTo[1] - LastFrom[1]) = 2
             THEN <<(LastFrom[1] + LastTo[1]) \div 2, LastFrom[2]>>
             ELSE NoSquare)

\* an en passant capture, made on the move after the double step, has
\* cleared the square
C10_Witness ==
    /\ Accepted
    /\ Moved.role = "Pawn"
    /\ pre.ep_square # NoSquare
    /\ LastTo = pre.ep_square
    /\ ep_square = NoSquare

\* the letters of a board: role and colour of every square, without the
\* has_moved flags
Letters(board) ==
    [sq \in Squares |-> [role |-> At(board, sq).role, color |-> At(board, sq).color]]

AfterE4Placement == "rnbqkbnr/pppppppp/8/8/4P3/8/PPPP1PPP/RNBQKBNR"

\* C11: 1.e4. make_move(e2, e4) on Game::new() is accepted; afterwards the
\* board is the one decoded from rnbqkbnr/pppppppp/8/8/4P3/8/PPPP1PPP/RNBQKBNR
\* (White pawn on e4, e2 empty, every other square as at the start), Black
\* is to move, the en passant square is e3, the halfmove clock is 0, the
\* fullmove clock is 1, and get_fen gives these fields with castling KQkq.
C11_E2E4 ==
    /\ (nloads = 0 /\ hist = <<>>) => make_move(Self, "e2", "e4").ret = "InProgress"
    /\ (nloads = 0 /\ hist = <<<<"e2", "e4">>>>) =>
          /\ Letters(chessboard) =
                Letters(place_rows(Game_new.chessboard,
                                   split(AfterE4Placement, "/"), 1).board)
          /\ At(chessboard, <<4, 4>>) = Piece_new("Pawn", White, TRUE)
          /\ is_none(At(chessboard, <<6, 4>>))
          /\ \A sq \in Squares \ {<<4, 4>>, <<6, 4>>} :
                At(chessboard, sq) = At(Game_new.chessboard, sq)
          /\ turn = Black
          /\ ep_square = parse_square("e3")
          /\ halfmove = 0
          /\ fullmove = 1
          /\ get_fen(Self) = AfterE4Placement \o " b KQkq e3 0 1"

\* the call e2e4 on Game::new() has returned
C11_Witness ==
    /\ nloads = 0
    /\ hist = <<<<"e2", "e4">>>>
    /\ Accepted
    /\ ret = "InProgress"
    /\ get_turn(Self) = "Black"

\* the rules of chess: the piece on p attacks the square t
RuleAttacks(board, p, t) ==
    LET piece == At(board, p)
        dr == t[1] - p[1]
        dc == t[2] - p[2]
        far == IF abs(dr) > abs(dc) THEN abs(dr) ELSE abs(dc)
        straight == dr = 0 \/ dc = 0
        diagonal == abs(dr) = abs(dc)
        clear == \A k \in 1..(far - 1) :
                    is_none(At(board, <<p[1] + k * signum(dr), p[2] + k * signum(dc)>>))
    IN  /\ p # t
        /\ CASE piece.role = "Pawn" ->
                    dr = (IF piece.color = White THEN -1 ELSE 1) /\ abs(dc) = 1
             [] piece.role = "Knight" -> {abs(dr), abs(dc)} = {1, 2}
             [] piece.role = "King" -> far = 1
             [] piece.role = "Rook" -> straight /\ clear
             [] piece.role = "Bishop" -> diagonal /\ clear
             [] piece.role = "Queen" -> (straight \/ diagonal) /\ clear
             [] OTHER -> FALSE

\* a piece of the other colour attacks the square t
RuleAttacked(board, color, t) ==
    \E p \in Squares :
        is_some(At(board, p)) /\ At(board, p).color # color /\ RuleAttacks(board, p, t)

\* the king on sq and its destination when castling toward side
\* (1 king-side, -1 queen-side)
CastlingDest(sq, side) == <<sq[1], sq[2] + 2 * side>>
CastlingCorner(sq, side) == <<sq[1], IF side = 1 THEN 7 ELSE 0>>

CastlingOffered(g, sq, side) ==
    /\ At(g.chessboard, sq).role = "King"
    /\ move_okay(CastlingDest(sq, side))
    /\ CastlingDest(sq, side) \in
          available_moves(At(g.chessboard, sq), g, sq, FALSE, FALSE)

\* the preconditions of castling
KingUnmoved(board, sq) == ~At(board, sq).has_moved
RookUnmoved(board, sq, side) ==
    /\ At(board, CastlingCorner(sq, side)).role = "Rook"
    /\ ~At(board, CastlingCorner(sq, side)).has_moved
BetweenEmpty(board, sq, side) ==
    \A c \in Cols :
        ((side = 1 /\ c > sq[2] /\ c < 7) \/ (side = -1 /\ c < sq[2] /\ c > 0))
            => is_none(board[sq[1]][c])
StartSafe(board, sq) == ~RuleAttacked(board, At(board, sq).color, sq)
PathSafe(board, sq, side) ==
    /\ ~RuleAttacked(Put(board, sq, None), At(board, sq).color, <<sq[1], sq[2] + side>>)
    /\ ~RuleAttacked(Put(board, sq, None), At(board, sq).color, CastlingDest(sq, side))

\* C12: castling is offered only when every precondition holds. The king's
\* move of two columns toward a side is in its legal set only if the king
\* has not moved, the piece on that side's corner is a rook that has not
\* moved, the squares between them are empty, the king is not attacked where
\* it stands, and it is attacked neither on the square it crosses nor on its
\* destination.
C12_CastlingPreconditions ==
    ~game_over(Self) =>
        \A sq \in Squares : \A side \in {-1, 1} :
            CastlingOffered(Self, sq, side) =>
                /\ KingUnmoved(chessboard, sq)
                /\ RookUnmoved(chessboard, sq, side)
                /\ BetweenEmpty(chessboard, sq, side)
                /\ StartSafe(chessboard, sq)
                /\ PathSafe(chessboard, sq, side)

\* White's king-side castling was asked for and refused with f1 attacked and
\* every other precondition met, while the queen-side one is offered
C12_Witness ==
    /\ op = "make_move" /\ ret = "None" /\ exit = "illegal"
    /\ At(chessboard, <<7, 4>>) = Piece_new("King", White, FALSE)
    /\ turn = White
    /\ CastlingOffered(Self, <<7, 4>>, -1)
    /\ ~CastlingOffered(Self, <<7, 4>>, 1)
    /\ RookUnmoved(chessboard, <<7, 4>>, 1)
    /\ BetweenEmpty(chessboard, <<7, 4>>, 1)
    /\ StartSafe(chessboard, <<7, 4>>)
    /\ ~PathSafe(chessboard, <<7, 4>>, 1)

\* the promotion letters and the role each one chooses
PromotionLetters == {"q", "Q", "r", "R", "n", "N", "b", "B"}
ChosenRole(c) ==
    IF c \in {"q", "Q"} THEN "Queen"
    ELSE IF c \in {"r", "R"} THEN "Rook"
    ELSE IF c \in {"n", "N"} THEN "Knight"
    ELSE "Bishop"

\* what is tried after the two characters of the destination: nothing, each
\* promotion letter, other characters, and a letter followed by more text
PromotionSuffixes == PromotionLetters \cup {"", "x", "k", "K", "p", "P", "1", "nb", "xq"}

\* the effect of a promotion of the pawn of colour c from sq to d with the
\* letter l, on the Game g
Promoted(g, c, sq, d, l) ==
    /\ At(g.chessboard, d) = Piece_new(ChosenRole(l), c, TRUE)
    /\ is_none(At(g.chessboard, sq))
    /\ g.ep_square = NoSquare
    /\ g.halfmove = 0

\* C13: promotion requires and honours a choice. For a pawn of the side to
\* move whose destination is in its legal set and on row 0 or 7, make_move is
\* accepted iff the third character of `to` is one of q, r, n, b in either
\* case; otherwise it returns None and the Game is unchanged. When accepted,
\* the destination holds a piece of the chosen role and the mover's colour
\* with has_moved = true, the origin is empty, the en passant square is
\* absent and the halfmove clock is 0.
C13_PromotionChoice ==
    /\ ~game_over(Self) =>
          \A sq \in Squares :
             LET piece == At(chessboard, sq)
             IN  (piece.role = "Pawn" /\ piece.color = turn) =>
                    \A d \in available_moves(piece, Self, sq, FALSE, FALSE) :
                       d[1] \in {0, 7} =>
                          \A s \in PromotionSuffixes :
                             LET r == make_move(Self, format_square(sq),
                                                format_square(d) \o s)
                                 l == IF Len(s) > 0 THEN Char(s, 1) ELSE ""
                             IN  IF l \in PromotionLetters
                                 THEN /\ r.ret \notin {"None", "panic"}
                                      /\ Promoted(r.g, piece.color, sq, d, l)
                                 ELSE r.ret = "None" /\ r.g = Self
    /\ (Accepted /\ Moved.role = "Pawn" /\ LastTo[1] \in {0, 7}) =>
          /\ Len(hist[Len(hist)][2]) >= 3
          /\ Char(hist[Len(hist)][2], 3) \in PromotionLetters
          /\ Promoted(Self, Mover, LastFrom, LastTo, Char(hist[Len(hist)][2], 3))

\* a pawn has been promoted to the queen asked for
C13_Witness ==
    /\ Accepted
    /\ Moved.role = "Pawn"
    /\ LastTo[1] = 0
    /\ hist[Len(hist)] = <<"b7", "b8q">>
    /\ At(chessboard, LastTo) = Piece_new("Queen", White, TRUE)
    /\ is_none(At(chessboard, LastFrom))

\* the elements of a list
Range(s) == {s[i] : i \in 1..Len(s)}

StartKnights == {"b1", "g1", "b8", "g8"}
StartBackRank == {"a1", "c1", "d1", "e1", "f1", "h1", "a8", "c8", "d8", "e8", "f8", "h8"}

\* the two third-rank squares of a knight of the start position
KnightTargets(s) ==
    LET pos == parse_square(s)
        row == IF pos[1] = 7 THEN 5 ELSE 2
    IN  {format_square(<<row, pos[2] - 1>>), format_square(<<row, pos[2] + 1>>)}

\* C14: in the start position built by Game::new(), get_possible_moves("b1")
\* returns exactly a3 and c3, each once; each knight has its two third-rank
\* squares and each back-rank rook, bishop, queen and king has none.
C14_StartMoves ==
    (nloads = 0 /\ hist = <<>>) =>
        /\ get_possible_moves(Self, "b1").ret = "Some"
        /\ Range(get_possible_moves(Self, "b1").moves) = {"a3", "c3"}
        /\ Len(get_possible_moves(Self, "b1").moves) = 2
        /\ \A s \in StartKnights :
              /\ get_possible_moves(Self, s).ret = "Some"
              /\ Range(get_possible_moves(Self, s).moves) = KnightTargets(s)
              /\ Len(get_possible_moves(Self, s).moves) = 2
        /\ \A s \in StartBackRank :
              /\ get_possible_moves(Self, s).ret = "Some"
              /\ get_possible_moves(Self, s).moves = <<>>
        /\ (op = "get_possible_moves" /\ asked = "b1") =>
              ret = "Some" /\ Len(listed) = 2 /\ Range(listed) = {"a3", "c3"}
        /\ (op = "get_possible_moves" /\ asked = "e1") =>
              ret = "Some" /\ listed = <<>>

\* get_possible_moves("b1") has returned on the Game built by Game::new()
C14_Witness ==
    /\ nloads = 0
    /\ hist = <<>>
    /\ op = "get_possible_moves"
    /\ asked = "b1"
    /\ listed = <<"c3", "a3">>

\* the list returned and the set returned agree: every legal destination is
\* listed, and listed once
ListedAgree ==
    \A sq \in Squares :
        LET piece == At(chessboard, sq)
            vec == moves_vec(piece, Self, sq)
        IN  (is_some(piece) /\ ~game_over(Self)) =>
               /\ Range(vec) = available_moves(piece, Self, sq, FALSE, FALSE)
               /\ Len(vec) = Cardinality(Range(vec))

\* the last accepted move was a pawn's diagonal step onto the en passant
\* square left by the accepted move before it
EnPassantCapture ==
    /\ Accepted
    /\ Len(hist) >= 2
    /\ Moved.role = "Pawn"
    /\ pre.ep_square # NoSquare
    /\ LastTo = pre.ep_square
    /\ LastTo[2] # LastFrom[2]

\* the square of the pawn that made the double step: the capturing pawn's
\* origin row, the destination's column
PassedPawn == <<LastFrom[1], LastTo[2]>>

\* C15: en passant capture. When a pawn moves diagonally onto the current
\* en passant square, the enemy pawn that made the double step (origin row
\* of the capturing pawn, column of the destination) is removed, the
\* capturing pawn stands on the en passant square, its origin is empty and
\* no other square changes; the en passant square is on row 2 when White
\* captures and on row 5 when Black captures.
C15_EnPassantCapture ==
    EnPassantCapture =>
        /\ At(pre.chessboard, PassedPawn).role = "Pawn"
        /\ At(pre.chessboard, PassedPawn).color = Other(Mover)
        /\ is_none(At(chessboard, PassedPawn))
        /\ At(chessboard, LastTo) = Piece_new("Pawn", Mover, TRUE)
        /\ is_none(At(chessboard, LastFrom))
        /\ \A sq \in Squares \ {PassedPawn, LastTo, LastFrom} :
              At(chessboard, sq) = At(pre.chessboard, sq)
        /\ pre.ep_square[1] = (IF Mover = White THEN 2 ELSE 5)

\* White has captured en passant in a game played from Game::new()
C15_Witness ==
    /\ EnPassantCapture
    /\ nloads = 0
    /\ Mover = White
    /\ hist[Len(hist) - 1] = <<"d7", "d5">>
    /\ hist[Len(hist)] = <<"e5", "d6">>
    /\ is_none(At(chessboard, <<3, 3>>))

\* Black has captured en passant
C15_BlackCaptures ==
    /\ EnPassantCapture
    /\ Mover = Black
    /\ hist[Len(hist)] = <<"d4", "e3">>
    /\ is_none(At(chessboard, <<4, 4>>))

\* the last accepted move was a king's move of two columns
Castled == Accepted /\ Moved.role = "King" /\ abs(LastTo[2] - LastFrom[2]) = 2

\* the square the king crossed and the corner of the side it went to
Crossed == <<LastFrom[1], (LastFrom[2] + LastTo[2]) \div 2>>
Corner == <<LastFrom[1], IF LastTo[2] > LastFrom[2] THEN 7 ELSE 0>>

\* C16: castling effect. After an accepted king move of two columns the
\* king stands on its destination, a rook of the mover's colour stands on
\* the square the king crossed (column 5 king-side, column 3 queen-side), the
\* corner (column 7 resp. 0) and the king's origin are empty, king and rook
\* have has_moved = true, and every other square is unchanged.
C16_CastlingEffect ==
    Castled =>
        /\ At(chessboard, LastTo) = Piece_new("King", Mover, TRUE)
        /\ At(chessboard, Crossed) = Piece_new("Rook", Mover, TRUE)
        /\ Crossed[2] = (IF LastTo[2] > LastFrom[2] THEN 5 ELSE 3)
        /\ is_none(At(chessboard, Corner))
        /\ is_none(At(chessboard, LastFrom))
        /\ \A sq \in Squares \ {LastTo, Crossed, Corner, LastFrom} :
              At(chessboard, sq) = At(pre.chessboard, sq)

\* Black has castled queen-side
C16_Witness ==
    /\ Castled
    /\ Mover = Black
    /\ hist[Len(hist)] = <<"e8", "c8">>
    /\ At(chessboard, <<0, 3>>).role = "Rook"
    /\ is_none(At(chessboard, <<0, 0>>))

\* C17: turn transition. An accepted move is made by a piece of the side to
\* move; if it returns InProgress or Check the side to move becomes the
\* other colour, if it returns Checkmate or Stalemate the side to move stays
\* the mover's colour, and a refused call leaves the side to move alone.
\* After White's first move on Game::new(), get_turn() is "Black".
C17_TurnTransition ==
    [][op' = "make_move" =>
          /\ turn' = (IF ret' \in {"InProgress", "Check"} THEN Other(turn) ELSE turn)
          /\ ret' \notin {"None", "panic"} =>
                /\ ret' \in {"InProgress", "Check", "Checkmate", "Stalemate"}
                /\ Moved'.color = turn
          /\ (nloads = 0 /\ hist = <<>> /\ ret' \notin {"None", "panic"}) =>
                get_turn(Self)' = "Black"]_vars

\* Black has mated and is still the side to move
C17_Witness ==
    Accepted /\ ret = "Checkmate" /\ Mover = Black /\ turn = Black

\* the position the accepted moves of hist were played from: the one built
\* by Game::new(), or the one decoded by the last load_fen
StartPosition == IF nloads = 0 THEN Game_new ELSE load_fen(Game_new, fen).g

\* the number of kings of a colour on a board
KingCount(board, color) ==
    Cardinality({sq \in Squares :
                    At(board, sq).role = "King" /\ At(board, sq).color = color})

\* C18: kings are never captured. From a position with exactly one king of
\* each colour in which the side not to move is not in check, after any
\* sequence of accepted make_move calls the board holds exactly one White
\* king and exactly one Black king.
C18_KingsNeverCaptured ==
    (/\ nloads = 0 \/ fen \in WellFormedFens
     /\ KingCount(StartPosition.chessboard, White) = 1
     /\ KingCount(StartPosition.chessboard, Black) = 1
     /\ ~in_check(StartPosition, Other(StartPosition.turn)))
        => /\ KingCount(chessboard, White) = 1
           /\ KingCount(chessboard, Black) = 1

====
